---- MODULE Spec2Model ----
(***************************************************************************)
(* Arbiters of the actix runtime: one OS thread and one event loop each.   *)
(* The model follows src/src/arbiter.rs: the thread-local slots, the root  *)
(* bootstrap (new_system, set_system), Arbiter::new with its handshake     *)
(* channel, the started hook and the StopArbiter handler.  System (its     *)
(* arbiter map and its SystemExit handler) lives in system.rs and is       *)
(* modelled from the specification.                                         *)
(***************************************************************************)
EXTENDS Integers, Sequences, FiniteSets, TLC

\* ---------------------------------------------------------------- bounds
MaxArbiters == 2        \* threads Arbiter::new may spawn
MaxWorkers == 1         \* arbiters spawned in the shutdown scenario
MaxMsgs == 1            \* StopArbiter and SystemExit messages sent in the shutdown scenario
MaxStops == 2           \* StopArbiter messages sent in the stopping scenario
MaxCalls == 1           \* recorded calls of a thread-local accessor
MaxReqs == 2            \* StartActor and actor messages sent in the start scenario
MaxExecs == 2           \* Execute messages sent in the execute scenario
MaxSubs == 3            \* signal subscribers started
MaxSignals == 2         \* process signals raised
MaxErrors == 1          \* errors reported by the signal streams
MaxHandlers == 2        \* DefaultSignalsHandler actors started in the exit scenario
MaxKills == 1           \* process signals raised in the exit scenario

\* --------------------------------------------------------------- threads
Root == 0                               \* the thread that ran System::new
Children == 1 .. MaxArbiters            \* threads spawned by Arbiter::new
Ext == MaxArbiters + 1                  \* a thread that never ran an arbiter
NoThread == 0 - 1
Arbiters == {Root} \cup Children
Threads == Arbiters \cup {Ext}

StopCodes == {0, 1}                     \* the i32 carried by StopArbiter / SystemExit

\* ---------------------------------------------------------------- values
None == [some |-> FALSE]
Some(v) == [some |-> TRUE, val |-> v]

Slots == {"HND", "STOP", "ADDR", "REG", "NAME", "SYS", "SYSARB", "SYSNAME", "SYSREG"}

EmptyTls == [s \in Slots |-> None]

\* Uuid::new_v4(): a fresh id per arbiter; the thread number stands for it
Uuid(t) == t
IdSimple(id) == <<"simple", id>>
IdHyphenated(id) == <<"hyphenated", id>>

LocalAddr(t) == [actor |-> "Arbiter", thread |-> t, sync |-> FALSE]
SyncAddr(t) == [actor |-> "Arbiter", thread |-> t, sync |-> TRUE]
SysAddr == [actor |-> "System", thread |-> Root, sync |-> TRUE]
SysName == [text |-> "system"]
\* format!("arbiter:{:?}:{:?}", id.hyphenated().to_string(), n) / format!("arbiter:{:?}", ..)
ArbiterName(id, n) == [text |-> "arbiter", id |-> IdHyphenated(id), n |-> n]

\* a clone that is a registry of its own, with its own map
SysRegCloneDetached(reg, holder) == [origin |-> holder, holder |-> holder]

\* SystemRegistry::clone() as called in Arbiter::new: the copy handed to a child
\* is another handle on the same map
SysRegClone(reg, holder) == [reg EXCEPT !.holder = holder]

VARIABLES
    pc,         \* position of every thread
    tls,        \* the thread_local! cells of every thread
    writes,     \* how many times each cell has been assigned
    actor,      \* the Arbiter actor living on a thread: id, sys, started
    env,        \* what the closure given to thread::spawn captured
    chan,       \* the mpsc handshake channel of each Arbiter::new call
    call,       \* the child a thread is waiting for inside Arbiter::new (0: none)
    ret,        \* what Arbiter::new has returned on a thread, in order: child and address
    mbox,       \* mailbox of each Arbiter actor
    stopRx,     \* receiving end of each loop's oneshot stop channel
    sysInbox,   \* mailbox of System
    arbiters,   \* System.arbiters: id -> address
    sysStop,    \* System.stop: the sender that ends the root loop
    exitCode,   \* what the root loop returned
    acc,        \* the last accessor call made by user code
    out,        \* the messages each arbiter thread has sent to System, in order
    handled,    \* the codes of the StopArbiter messages each arbiter has handled
    sent,       \* counters of the messages the environment has sent
    reqs,       \* the StartActor, Execute and actor messages sent so far, in order
    objs,       \* the actors started through StartActor, in order of construction
    resp,       \* the responses the handlers of each arbiter have returned, in order
    log         \* the computations, hooks and handlers each thread has run, in order

\* the state of the requests served by arbiters
callVars == <<reqs, objs, resp, log>>

VARIABLES
    sysreg,     \* the maps behind the SystemRegistry handles: service address, once created
    ps,         \* the ProcessSignals instances constructed, in order
    subs,       \* the signal subscribers (DefaultSignalsHandler actors) started, in order
    sends,      \* every send of a Signal attempted by a fan-out, in order
    notes,      \* the notifications handled: kind, subscriber list before and after
    sigs        \* counters of the signals raised and of the stream errors

\* the state of signal handling
sigVars == <<sysreg, ps, subs, sends, notes, sigs>>

vars == <<pc, tls, writes, actor, env, chan, call, ret, mbox, stopRx,
          sysInbox, arbiters, sysStop, exitCode, acc, out, handled, sent, callVars, sigVars>>

\* ------------------------------------------------------- thread-local API
\* an accessor that hands out a default instead of panicking on an empty cell
AccessorDefault(cell) ==
    [ok |-> TRUE, val |-> IF cell.some THEN cell.val ELSE [default |-> TRUE]]

\* Arbiter::name() .. Arbiter::registry(): the value of the cell, or a panic
AccessorSlot == [name |-> "NAME", arbiter |-> "ADDR", system |-> "SYS",
                 system_arbiter |-> "SYSARB", system_name |-> "SYSNAME",
                 system_registry |-> "SYSREG", handle |-> "HND", registry |-> "REG"]
Accessors == DOMAIN AccessorSlot

Accessor(cell) ==
    IF cell.some THEN [ok |-> TRUE, val |-> cell.val] ELSE [ok |-> FALSE]

Call(t, fn) == Accessor(tls[t][AccessorSlot[fn]])

\* assign the cells in DOMAIN w on thread t
Assign(t, w) ==
    /\ tls' = [tls EXCEPT ![t] = [s \in Slots |-> IF s \in DOMAIN w THEN Some(w[s]) ELSE @[s]]]
    /\ writes' = [writes EXCEPT ![t] = [s \in Slots |-> IF s \in DOMAIN w THEN @[s] + 1 ELSE @[s]]]

\* ------------------------------------------------------------------ Init
Init ==
    /\ pc = [t \in Threads |-> IF t = Root THEN "boot" ELSE IF t = Ext THEN "user" ELSE "unborn"]
    /\ tls = [t \in Threads |-> EmptyTls]
    /\ writes = [t \in Threads |-> [s \in Slots |-> 0]]
    /\ actor = [t \in Arbiters |-> None]
    /\ env = [c \in Children |-> None]
    /\ chan = [c \in Children |-> [val |-> None, tx |-> FALSE, rx |-> FALSE, caller |-> NoThread]]
    /\ call = [t \in Threads |-> 0]
    /\ ret = [t \in Threads |-> <<>>]
    /\ mbox = [t \in Arbiters |-> <<>>]
    /\ stopRx = [t \in Arbiters |-> None]
    /\ sysInbox = <<>>
    /\ arbiters = [id \in {} |-> None]
    /\ sysStop = FALSE
    /\ exitCode = None
    /\ acc = None
    /\ out = [t \in Arbiters |-> <<>>]
    /\ handled = [t \in Arbiters |-> <<>>]
    /\ sent = [stops |-> 0, exits |-> 0, calls |-> 0]
    /\ reqs = <<>>
    /\ objs = <<>>
    /\ resp = [t \in Arbiters |-> <<>>]
    /\ log = [t \in Arbiters |-> <<>>]
    /\ sysreg = [o \in Arbiters |-> None]
    /\ ps = <<>>
    /\ subs = <<>>
    /\ sends = <<>>
    /\ notes = <<>>
    /\ sigs = [raised |-> 0, errors |-> 0]

\* ------------------------------------------------------------- bootstrap
\* Arbiter::new_system: the cells the root thread fills, and the root actor
NewSystemWrites ==
    [HND |-> [handle |-> Root], REG |-> [registry |-> Root], NAME |-> SysName,
     SYSREG |-> [origin |-> Root, holder |-> Root],
     ADDR |-> LocalAddr(Root), SYSARB |-> SyncAddr(Root)]

NewSystem ==
    /\ pc[Root] = "boot"
    /\ Assign(Root, NewSystemWrites)
    /\ actor' = [actor EXCEPT ![Root] = Some([id |-> Uuid(Root), sys |-> TRUE, started |-> FALSE])]
    /\ pc' = [pc EXCEPT ![Root] = "booted"]
    /\ UNCHANGED <<env, chan, call, ret, mbox, stopRx, sysInbox, arbiters, sysStop,
                   exitCode, acc, out, handled, sent, callVars, sigVars>>

\* Arbiter::set_system(addr, name), called by System::new once System is started
SetSystemWrites == [SYS |-> SysAddr, SYSNAME |-> SysName]

SetSystem ==
    /\ pc[Root] = "booted"
    /\ Assign(Root, SetSystemWrites)
    /\ sysStop' = TRUE
    /\ pc' = [pc EXCEPT ![Root] = "ready"]
    /\ UNCHANGED <<actor, env, chan, call, ret, mbox, stopRx, sysInbox, arbiters,
                   exitCode, acc, out, handled, sent, callVars, sigVars>>

\* sys.run(): the root thread enters its event loop
RootRun ==
    /\ pc[Root] = "ready"
    /\ call[Root] = 0
    /\ pc' = [pc EXCEPT ![Root] = "run"]
    /\ UNCHANGED <<tls, writes, actor, env, chan, call, ret, mbox, stopRx, sysInbox,
                   arbiters, sysStop, exitCode, acc, out, handled, sent, callVars, sigVars>>

\* a loop that polls its actors while a handler is in progress
BusyNever(t) == FALSE

\* the loop of a thread runs one handler at a time, to completion: thread t is in
\* the middle of a handler that takes several steps
Busy(t) == \E n \in 1 .. Len(ps) : ps[n].home = t /\ ps[n].fan.some

\* a thread that is executing user code and is not blocked in Arbiter::new
UserCode(t) ==
    /\ call[t] = 0 /\ ~Busy(t)
    /\ \/ t = Root /\ pc[t] \in {"ready", "run"}
       \/ t \in Children /\ pc[t] = "run"
       \/ t = Ext /\ pc[t] = "user"

\* ----------------------------------------------------------- Arbiter::new
NameOpts == {Some("worker")}      \* the name: Option<String> argument

SystemAlive == pc[Root] \in {"ready", "run"}

\* address.send(msg) to System: enqueued while System lives, dropped otherwise
SendSystem(box, msgs) == IF SystemAlive THEN box \o msgs ELSE box

\* a closure that captures the caller's own arbiter in place of the system arbiter
ClosureEnvOwn(p, c, n) ==
    [id |-> Uuid(c),
     sys |-> Call(p, "system").val,
     sys_name |-> Call(p, "system_name").val,
     sys_arbiter |-> SyncAddr(p),
     sys_registry |-> SysRegClone(Call(p, "system_registry").val, c),
     name |-> ArbiterName(Uuid(c), n)]

\* lines 56-65: what the closure moved into the child thread carries
ClosureEnv(p, c, n) ==
    [id |-> Uuid(c),
     sys |-> Call(p, "system").val,
     sys_name |-> Call(p, "system_name").val,
     sys_arbiter |-> Call(p, "system_arbiter").val,
     sys_registry |-> SysRegClone(Call(p, "system_registry").val, c),
     name |-> ArbiterName(Uuid(c), n)]

\* lines 57-60 panic unless the four cells of the calling thread are filled
NewCanCapture(p) ==
    \A fn \in {"system", "system_name", "system_arbiter", "system_registry"} : Call(p, fn).ok

\* the next child thread to be created
NextChild == CHOOSE c \in Children : pc[c] = "unborn" /\ \A d \in Children : pc[d] = "unborn" => c <= d

\* Arbiter::new, lines 54-67: capture, then thread::Builder::spawn (which may fail:
\* the closure, and the handshake sender in it, is then dropped)
NewBegin(p, spawned) ==
    /\ UserCode(p)
    /\ \E c \in Children : pc[c] = "unborn"
    /\ LET c == NextChild IN
       IF ~NewCanCapture(p)
       THEN /\ pc' = [pc EXCEPT ![p] = "panicked"]
            /\ UNCHANGED <<env, chan, call>>
       ELSE \E n \in NameOpts :
            /\ env' = [env EXCEPT ![c] = Some(ClosureEnv(p, c, n))]
            /\ chan' = [chan EXCEPT ![c] = [val |-> None, tx |-> spawned, rx |-> TRUE, caller |-> p]]
            /\ pc' = [pc EXCEPT ![c] = IF spawned THEN "core" ELSE "nothread"]
            /\ call' = [call EXCEPT ![p] = c]
    /\ UNCHANGED <<tls, writes, actor, ret, mbox, stopRx, sysInbox, arbiters, sysStop,
                   exitCode, acc, out, handled, sent, callVars, sigVars>>

\* a receive that keeps waiting when every sender is gone
RecvBlocking(ch) ==
    IF ch.val.some THEN [ready |-> TRUE, ok |-> TRUE, val |-> ch.val.val]
    ELSE [ready |-> FALSE]

\* std::sync::mpsc Receiver::recv: a buffered value, else an error once every
\* sender is gone, else it blocks
Recv(ch) ==
    IF ch.val.some THEN [ready |-> TRUE, ok |-> TRUE, val |-> ch.val.val]
    ELSE IF ~ch.tx THEN [ready |-> TRUE, ok |-> FALSE]
    ELSE [ready |-> FALSE]

\* Arbiter::new, line 101: rx.recv().unwrap()
NewRecv(p) ==
    /\ call[p] # 0
    /\ LET c == call[p]
           r == Recv(chan[c]) IN
       /\ r.ready
       /\ call' = [call EXCEPT ![p] = 0]
       /\ chan' = [chan EXCEPT ![c].val = None, ![c].rx = FALSE]
       /\ IF r.ok
          THEN ret' = [ret EXCEPT ![p] = Append(@, [child |-> c, addr |-> r.val])] /\ pc' = pc
          ELSE ret' = ret /\ pc' = [pc EXCEPT ![p] = "panicked"]
    /\ UNCHANGED <<tls, writes, actor, env, mbox, stopRx, sysInbox, arbiters, sysStop,
                   exitCode, acc, out, handled, sent, callVars, sigVars>>

\* a closure that sends the handshake before it stores ADDR
ChildStepsEarlySend == <<"core", "tls", "sys", "start", "send", "addr", "run", "unreg", "done">>

\* the statements of the spawned closure, lines 68-98, in program order
ChildSteps == <<"core", "tls", "sys", "start", "addr", "send", "run", "unreg", "done">>

\* the statements that touch nothing but the thread's own cells and actor
Private == {"core", "tls", "sys", "start", "addr"}

StepIndex(s) == CHOOSE i \in 1 .. Len(ChildSteps) : ChildSteps[i] = s
After(s) == ChildSteps[StepIndex(s) + 1]

\* the statements executed from s up to the next one another thread can observe
RECURSIVE PrivateRun(_)
PrivateRun(s) == IF s \in Private THEN <<s>> \o PrivateRun(After(s)) ELSE <<>>

RECURSIVE AfterRun(_)
AfterRun(s) == IF s \in Private THEN AfterRun(After(s)) ELSE s

\* a closure that assigns NAME a second time when it stores ADDR
ChildWritesTwice(step, c) ==
    IF step = "tls" THEN [HND |-> [handle |-> c], STOP |-> [stop |-> c], NAME |-> env[c].val.name]
    ELSE IF step = "sys" THEN [SYS |-> env[c].val.sys, SYSARB |-> env[c].val.sys_arbiter,
                               SYSNAME |-> env[c].val.sys_name, SYSREG |-> env[c].val.sys_registry]
    ELSE IF step = "addr" THEN [ADDR |-> LocalAddr(c), NAME |-> env[c].val.name]
    ELSE [s \in {} |-> None]

\* the cells each statement group of the closure assigns
ChildWrites(step, c) ==
    IF step = "tls" THEN [HND |-> [handle |-> c], STOP |-> [stop |-> c], NAME |-> env[c].val.name]
    ELSE IF step = "sys" THEN [SYS |-> env[c].val.sys, SYSARB |-> env[c].val.sys_arbiter,
                               SYSNAME |-> env[c].val.sys_name, SYSREG |-> env[c].val.sys_registry]
    ELSE IF step = "addr" THEN [ADDR |-> LocalAddr(c)]
    ELSE [s \in {} |-> None]

\* the cells of thread c after the statements of run, and the assignments counted
RECURSIVE TlsAfter(_, _, _)
TlsAfter(cells, run, c) ==
    IF run = <<>> THEN cells
    ELSE LET w == ChildWrites(Head(run), c) IN
         TlsAfter([s \in Slots |-> IF s \in DOMAIN w THEN Some(w[s]) ELSE cells[s]], Tail(run), c)

RECURSIVE WritesAfter(_, _, _)
WritesAfter(n, run, c) ==
    IF run = <<>> THEN n
    ELSE LET w == ChildWrites(Head(run), c) IN
         WritesAfter([s \in Slots |-> IF s \in DOMAIN w THEN n[s] + 1 ELSE n[s]], Tail(run), c)

InRun(run, s) == \E i \in 1 .. Len(run) : run[i] = s

\* lines 68-84: create the loop, fill the cells, start the Arbiter actor, store its
\* address.  Nothing of this is visible to another thread, so one step performs the
\* statements up to the next visible one.
ChildInit(c) ==
    /\ pc[c] \in Private
    /\ LET run == PrivateRun(pc[c]) IN
       /\ tls' = [tls EXCEPT ![c] = TlsAfter(@, run, c)]
       /\ writes' = [writes EXCEPT ![c] = WritesAfter(@, run, c)]
       /\ actor' = IF InRun(run, "start")
                   THEN [actor EXCEPT ![c] = Some([id |-> env[c].val.id, sys |-> FALSE, started |-> FALSE])]
                   ELSE actor
    /\ pc' = [pc EXCEPT ![c] = AfterRun(pc[c])]
    /\ UNCHANGED <<env, chan, call, ret, mbox, stopRx, sysInbox, arbiters, sysStop,
                   exitCode, acc, out, handled, sent, callVars, sigVars>>

\* line 68: Core::new().unwrap() fails: the thread unwinds and drops tx
CoreFail(c) ==
    /\ pc[c] = "core"
    /\ pc' = [pc EXCEPT ![c] = "panicked"]
    /\ chan' = [chan EXCEPT ![c].tx = FALSE]
    /\ UNCHANGED <<tls, writes, actor, env, call, ret, mbox, stopRx, sysInbox, arbiters,
                   sysStop, exitCode, acc, out, handled, sent, callVars, sigVars>>

\* lines 86-94: tx.send(saddr); the loop is run only if the send succeeded
HandshakeSend(c) ==
    /\ pc[c] = "send"
    /\ IF chan[c].rx
       THEN /\ chan' = [chan EXCEPT ![c].val = Some(SyncAddr(c))]
            /\ pc' = [pc EXCEPT ![c] = After("send")]
       ELSE /\ chan' = chan
            /\ pc' = [pc EXCEPT ![c] = "unreg"]
    /\ UNCHANGED <<tls, writes, actor, env, call, ret, mbox, stopRx, sysInbox, arbiters,
                   sysStop, exitCode, acc, out, handled, sent, callVars, sigVars>>

\* lines 96-98: the last statement of the thread
UnregisterMsg(id) == [type |-> "UnregisterArbiter", id |-> IdSimple(id)]

Unregister(c) ==
    /\ pc[c] = "unreg"
    /\ IF Call(c, "system").ok
       THEN LET m == UnregisterMsg(env[c].val.id) IN
            /\ sysInbox' = SendSystem(sysInbox, <<m>>)
            /\ out' = [out EXCEPT ![c] = Append(@, m)]
            /\ pc' = [pc EXCEPT ![c] = After("unreg")]
       ELSE /\ pc' = [pc EXCEPT ![c] = "panicked"]
            /\ UNCHANGED <<sysInbox, out>>
    /\ chan' = [chan EXCEPT ![c].tx = FALSE]
    /\ UNCHANGED <<tls, writes, actor, env, call, ret, mbox, stopRx, arbiters, sysStop,
                   exitCode, acc, handled, sent, callVars, sigVars>>

\* ------------------------------------------------------------ event loop
\* the Arbiter actor of thread t can still be sent messages
ArbiterAlive(t) == actor[t].some /\ pc[t] \notin {"unreg", "done", "panicked"}

\* address.send(msg) to the arbiter of thread t
SendArbiter(box, t, msgs) == IF ArbiterAlive(t) THEN [box EXCEPT ![t] = @ \o msgs] ELSE box

\* thread t is inside core.run and free to poll its actors
Polling(t) == t \in Arbiters /\ pc[t] = "run" /\ call[t] = 0 /\ ~Busy(t)

\* a hook that registers under the hyphenated form of the id
RegisterMsgHyphenated(a, addr) ==
    [type |-> "RegisterArbiter", id |-> IdHyphenated(a.id), addr |-> addr]

\* Actor::started of Arbiter, lines 42-46: the message and where it goes
RegisterMsg(a, addr) == [type |-> "RegisterArbiter", id |-> IdSimple(a.id), addr |-> addr]

\* Actor lifecycle: the started hook runs once, on the owning thread, at the first
\* poll of the actor, before any message is delivered
HookDue(t) == Polling(t) /\ actor[t].some /\ ~actor[t].val.started
Deliverable(t) == Polling(t) /\ actor[t].some /\ actor[t].val.started /\ mbox[t] # <<>>

ArbiterStarted(t) ==
    /\ HookDue(t)
    /\ IF Call(t, "system").ok
       THEN LET m == RegisterMsg(actor[t].val, SyncAddr(t)) IN
            /\ sysInbox' = SendSystem(sysInbox, <<m>>)
            /\ out' = [out EXCEPT ![t] = Append(@, m)]
            /\ actor' = [actor EXCEPT ![t].val.started = TRUE]
            /\ pc' = pc
       ELSE /\ pc' = [pc EXCEPT ![t] = "panicked"]
            /\ UNCHANGED <<sysInbox, out, actor>>
    /\ UNCHANGED <<tls, writes, env, chan, call, ret, mbox, stopRx, arbiters, sysStop,
                   exitCode, acc, handled, sent, callVars, sigVars>>

\* a handler that forwards the stop request of the system arbiter to System
StopArbiterForward(a, stop, code) ==
    IF a.sys THEN [stop |-> stop, signal |-> None,
                   toSystem |-> <<[type |-> "SystemExit", code |-> code]>>]
    ELSE IF stop.some THEN [stop |-> None, signal |-> Some(code), toSystem |-> <<>>]
    ELSE [stop |-> stop, signal |-> None, toSystem |-> <<>>]

\* a handler that signals the loop with a fixed code instead of msg.0
StopArbiterZero(a, stop, code) ==
    IF a.sys THEN [stop |-> stop, signal |-> None, toSystem |-> <<>>]
    ELSE IF stop.some THEN [stop |-> None, signal |-> Some(0), toSystem |-> <<>>]
    ELSE [stop |-> stop, signal |-> None, toSystem |-> <<>>]

\* a handler that leaves the stop sender in STOP and signals every time
StopArbiterResend(a, stop, code) ==
    IF a.sys THEN [stop |-> stop, signal |-> None, toSystem |-> <<>>]
    ELSE IF stop.some THEN [stop |-> stop, signal |-> Some(code), toSystem |-> <<>>]
    ELSE [stop |-> stop, signal |-> None, toSystem |-> <<>>]

\* Handler<StopArbiter>::handle, lines 198-211: the new STOP cell, the code
\* delivered to the loop's stop receiver, and what is sent to System
StopArbiterHandle(a, stop, code) ==
    IF a.sys THEN [stop |-> stop, signal |-> None, toSystem |-> <<>>]
    ELSE IF stop.some THEN [stop |-> None, signal |-> Some(code), toSystem |-> <<>>]
    ELSE [stop |-> stop, signal |-> None, toSystem |-> <<>>]

\* line 210: Self::empty(), the response of the handler in every case; the
\* sender used send(), which waits for no response
StopArbiterReply == [req |-> 0, to |-> NoThread, kind |-> "item", val |-> [unit |-> TRUE]]

HandleStop(t) ==
    /\ Deliverable(t)
    /\ Head(mbox[t]).type = "StopArbiter"
    /\ LET h == StopArbiterHandle(actor[t].val, tls[t]["STOP"], Head(mbox[t]).code) IN
       /\ tls' = [tls EXCEPT ![t]["STOP"] = h.stop]
       /\ stopRx' = IF h.signal.some THEN [stopRx EXCEPT ![t] = h.signal] ELSE stopRx
       /\ sysInbox' = SendSystem(sysInbox, h.toSystem)
    /\ mbox' = [mbox EXCEPT ![t] = Tail(@)]
    /\ handled' = [handled EXCEPT ![t] = Append(@, Head(mbox[t]).code)]
    /\ resp' = [resp EXCEPT ![t] = Append(@, StopArbiterReply)]
    /\ UNCHANGED <<pc, writes, actor, env, chan, call, ret, arbiters, sysStop,
                   exitCode, acc, out, sent, reqs, objs, log, sigVars>>

\* lines 90-93: core.run(stop_rx) returns once the stop receiver resolves
LoopResult(rx) == IF rx.some THEN rx.val ELSE 1

LoopEnd(c) ==
    /\ Polling(c) /\ c \in Children
    /\ stopRx[c].some
    /\ pc' = [pc EXCEPT ![c] = After("run")]
    /\ UNCHANGED <<tls, writes, actor, env, chan, call, ret, mbox, stopRx, sysInbox,
                   arbiters, sysStop, exitCode, acc, out, handled, sent, callVars, sigVars>>

\* ---------------------------------------------------------------- System
\* System handles RegisterArbiter(id, addr): arbiters.insert(id, addr)
SystemRegister ==
    /\ Polling(Root)
    /\ sysInbox # <<>> /\ Head(sysInbox).type = "RegisterArbiter"
    /\ LET m == Head(sysInbox) IN
       arbiters' = [i \in DOMAIN arbiters \cup {m.id} |-> IF i = m.id THEN m.addr ELSE arbiters[i]]
    /\ sysInbox' = Tail(sysInbox)
    /\ UNCHANGED <<pc, tls, writes, actor, env, chan, call, ret, mbox, stopRx, sysStop,
                   exitCode, acc, out, handled, sent, callVars, sigVars>>

\* System handles UnregisterArbiter(id): arbiters.remove(id)
SystemUnregister ==
    /\ Polling(Root)
    /\ sysInbox # <<>> /\ Head(sysInbox).type = "UnregisterArbiter"
    /\ arbiters' = [i \in DOMAIN arbiters \ {Head(sysInbox).id} |-> arbiters[i]]
    /\ sysInbox' = Tail(sysInbox)
    /\ UNCHANGED <<pc, tls, writes, actor, env, chan, call, ret, mbox, stopRx, sysStop,
                   exitCode, acc, out, handled, sent, callVars, sigVars>>

\* the arbiters System broadcasts StopArbiter to: the registered non-system ones
Broadcast == {arbiters[i].thread : i \in DOMAIN arbiters} \ {Root}

\* System handles SystemExit(code): broadcast StopArbiter(code), then stop the root loop
SystemExit ==
    /\ Polling(Root)
    /\ sysInbox # <<>> /\ Head(sysInbox).type = "SystemExit"
    /\ LET code == Head(sysInbox).code IN
       /\ mbox' = [t \in Arbiters |->
                     IF t \in Broadcast /\ ArbiterAlive(t)
                     THEN Append(mbox[t], [type |-> "StopArbiter", code |-> code])
                     ELSE mbox[t]]
       /\ stopRx' = IF sysStop THEN [stopRx EXCEPT ![Root] = Some(code)] ELSE stopRx
    /\ sysStop' = FALSE
    /\ sysInbox' = Tail(sysInbox)
    /\ UNCHANGED <<pc, tls, writes, actor, env, chan, call, ret, arbiters,
                   exitCode, acc, out, handled, sent, callVars, sigVars>>

\* SystemRunner::run returns the code received on System's stop channel
RootLoopEnd ==
    /\ Polling(Root)
    /\ stopRx[Root].some
    /\ pc' = [pc EXCEPT ![Root] = "done"]
    /\ exitCode' = Some(LoopResult(stopRx[Root]))
    /\ UNCHANGED <<tls, writes, actor, env, chan, call, ret, mbox, stopRx, sysInbox,
                   arbiters, sysStop, acc, out, handled, sent, callVars, sigVars>>

\* ----------------------------------------------------------- environment
\* the arbiter addresses thread p can send to
Holds(p, t) ==
    \/ \E i \in 1 .. Len(ret[p]) : ret[p][i].addr = SyncAddr(t)
    \/ t = Root /\ Call(p, "system_arbiter").ok

\* user code sends StopArbiter(code) to an arbiter it holds the address of
SendStop(p, t, code) ==
    /\ UserCode(p) /\ Holds(p, t)
    /\ sent' = [sent EXCEPT !.stops = @ + 1]
    /\ mbox' = SendArbiter(mbox, t, <<[type |-> "StopArbiter", code |-> code]>>)
    /\ UNCHANGED <<pc, tls, writes, actor, env, chan, call, ret, stopRx, sysInbox,
                   arbiters, sysStop, exitCode, acc, out, handled, callVars, sigVars>>

\* user code sends SystemExit(code) to Arbiter::system()
SendExit(p, code) ==
    /\ UserCode(p) /\ Call(p, "system").ok
    /\ sent' = [sent EXCEPT !.exits = @ + 1]
    /\ sysInbox' = SendSystem(sysInbox, <<[type |-> "SystemExit", code |-> code]>>)
    /\ UNCHANGED <<pc, tls, writes, actor, env, chan, call, ret, mbox, stopRx,
                   arbiters, sysStop, exitCode, acc, out, handled, callVars, sigVars>>

\* user code calls one of the thread-local accessors
AccessorCall(p, fn) ==
    /\ UserCode(p)
    /\ sent.calls < MaxCalls
    /\ sent' = [sent EXCEPT !.calls = @ + 1]
    /\ acc' = Some([thread |-> p, fn |-> fn, ok |-> Call(p, fn).ok])
    /\ pc' = IF Call(p, fn).ok THEN pc ELSE [pc EXCEPT ![p] = "panicked"]
    /\ UNCHANGED <<tls, writes, actor, env, chan, call, ret, mbox, stopRx, sysInbox,
                   arbiters, sysStop, exitCode, out, handled, callVars, sigVars>>

\* ------------------------------------------------ StartActor and Execute
\* the results the computation carried by an Execute message may produce
ExecResults == {[tag |-> "Ok", val |-> [i |-> 7]], [tag |-> "Err", val |-> [e |-> 7]]}

\* the SyncAddress of the k-th actor started through StartActor
ObjAddr(k) == [actor |-> "A", n |-> k, sync |-> TRUE]

\* the addresses of started actors that thread p has received in a response
Knows(p, k) ==
    \E t \in Arbiters : \E i \in 1 .. Len(resp[t]) :
        resp[t][i].to = p /\ resp[t][i].kind = "item" /\ resp[t][i].val = ObjAddr(k)

\* user code on thread p sends StartActor to the arbiter of thread t
SendStart(p, t) ==
    /\ UserCode(p) /\ Holds(p, t)
    /\ Len(reqs) < MaxReqs
    /\ LET m == [type |-> "StartActor", from |-> p, to |-> t, req |-> Len(reqs) + 1] IN
       /\ reqs' = Append(reqs, m)
       /\ mbox' = SendArbiter(mbox, t, <<m>>)
    /\ UNCHANGED <<pc, tls, writes, actor, env, chan, call, ret, stopRx, sysInbox,
                   arbiters, sysStop, exitCode, acc, out, handled, sent, objs, resp, log, sigVars>>

\* StartActor::call: the factory builds the actor on the executing thread t and
\* Actor::start spawns it on the loop whose handle that thread holds in HND
StartActorCall(t, m) ==
    [ctor |-> t, home |-> Call(t, "handle").val.handle, req |-> m.req,
     started |-> FALSE, box |-> <<>>]

\* a handler that has the actor built on the thread of the sender
StartActorAtSender(t, m, k) ==
    [obj |-> StartActorCall(m.from, m), reply |-> [kind |-> "item", val |-> ObjAddr(k)]]

\* Handler<StartActor<A>>::handle, lines 221-224: Self::reply(msg.call())
StartActorHandle(t, m, k) ==
    [obj |-> StartActorCall(t, m), reply |-> [kind |-> "item", val |-> ObjAddr(k)]]

HandleStart(t) ==
    /\ Deliverable(t)
    /\ Head(mbox[t]).type = "StartActor"
    /\ LET m == Head(mbox[t])
           h == StartActorHandle(t, m, Len(objs) + 1) IN
       /\ objs' = Append(objs, h.obj)
       /\ resp' = [resp EXCEPT ![t] = Append(@, [req |-> m.req, to |-> m.from,
                                                 kind |-> h.reply.kind, val |-> h.reply.val])]
       /\ log' = [log EXCEPT ![t] = Append(@, [type |-> "call", req |-> m.req, thread |-> t])]
    /\ mbox' = [mbox EXCEPT ![t] = Tail(@)]
    /\ UNCHANGED <<pc, tls, writes, actor, env, chan, call, ret, stopRx, sysInbox,
                   arbiters, sysStop, exitCode, acc, out, handled, sent, reqs, sigVars>>

\* Actor lifecycle: the started hook of a started actor runs at its first poll, on
\* the thread of the loop it was spawned on
ObjStarted(k) ==
    /\ k \in 1 .. Len(objs)
    /\ Polling(objs[k].home)
    /\ ~objs[k].started
    /\ objs' = [objs EXCEPT ![k].started = TRUE]
    /\ log' = [log EXCEPT ![objs[k].home] =
                    Append(@, [type |-> "started", obj |-> k, thread |-> objs[k].home])]
    /\ UNCHANGED <<pc, tls, writes, actor, env, chan, call, ret, mbox, stopRx, sysInbox,
                   arbiters, sysStop, exitCode, acc, out, handled, sent, reqs, resp, sigVars>>

\* user code on thread p sends a message to a started actor whose address it knows
ActorSend(p, k) ==
    /\ UserCode(p) /\ k \in 1 .. Len(objs) /\ Knows(p, k)
    /\ Len(reqs) < MaxReqs
    /\ LET m == [type |-> "Msg", from |-> p, to |-> ObjAddr(k), req |-> Len(reqs) + 1] IN
       /\ reqs' = Append(reqs, m)
       /\ objs' = [objs EXCEPT ![k].box = Append(@, m)]
    /\ UNCHANGED <<pc, tls, writes, actor, env, chan, call, ret, mbox, stopRx, sysInbox,
                   arbiters, sysStop, exitCode, acc, out, handled, sent, resp, log, sigVars>>

\* the loop the actor lives on polls it: the next message of its mailbox is handled
ObjHandle(k) ==
    /\ k \in 1 .. Len(objs)
    /\ Polling(objs[k].home)
    /\ objs[k].started /\ objs[k].box # <<>>
    /\ objs' = [objs EXCEPT ![k].box = Tail(@)]
    /\ log' = [log EXCEPT ![objs[k].home] =
                    Append(@, [type |-> "handle", obj |-> k, req |-> Head(objs[k].box).req,
                               thread |-> objs[k].home])]
    /\ UNCHANGED <<pc, tls, writes, actor, env, chan, call, ret, mbox, stopRx, sysInbox,
                   arbiters, sysStop, exitCode, acc, out, handled, sent, reqs, resp, sigVars>>

\* user code on thread p sends Execute, carrying a computation, to the arbiter of t
SendExecute(p, t, r) ==
    /\ UserCode(p) /\ Holds(p, t)
    /\ Len(reqs) < MaxExecs
    /\ LET m == [type |-> "Execute", from |-> p, to |-> t, req |-> Len(reqs) + 1, fn |-> r] IN
       /\ reqs' = Append(reqs, m)
       /\ mbox' = SendArbiter(mbox, t, <<m>>)
    /\ UNCHANGED <<pc, tls, writes, actor, env, chan, call, ret, stopRx, sysInbox,
                   arbiters, sysStop, exitCode, acc, out, handled, sent, objs, resp, log, sigVars>>

\* Execute::exec: the boxed computation is consumed and run on the executing thread
Exec(t, m) == [ran |-> <<[type |-> "exec", req |-> m.req, thread |-> t]>>, result |-> m.fn]

\* a handler that answers every result with a success response
ExecuteAlwaysItem(t, m) ==
    LET e == Exec(t, m) IN
    [ran |-> e.ran, reply |-> [kind |-> "item", val |-> e.result.val]]

\* Handler<Execute<I, E>>::handle, lines 236-243: Ok(i) => reply(i), Err(e) => reply_error(e)
ExecuteHandle(t, m) ==
    LET e == Exec(t, m) IN
    [ran |-> e.ran,
     reply |-> IF e.result.tag = "Ok" THEN [kind |-> "item", val |-> e.result.val]
               ELSE [kind |-> "error", val |-> e.result.val]]

HandleExecute(t) ==
    /\ Deliverable(t)
    /\ Head(mbox[t]).type = "Execute"
    /\ LET m == Head(mbox[t])
           h == ExecuteHandle(t, m) IN
       /\ log' = [log EXCEPT ![t] = @ \o h.ran]
       /\ resp' = [resp EXCEPT ![t] = Append(@, [req |-> m.req, to |-> m.from,
                                                 kind |-> h.reply.kind, val |-> h.reply.val])]
    /\ mbox' = [mbox EXCEPT ![t] = Tail(@)]
    /\ UNCHANGED <<pc, tls, writes, actor, env, chan, call, ret, stopRx, sysInbox,
                   arbiters, sysStop, exitCode, acc, out, handled, sent, reqs, objs, sigVars>>

\* --------------------------------------------------------------- signals
\* enum SignalType, and the state of the arbiters, which signal handling reads
SignalTypes == {"Hup", "Int", "Term", "Quit", "Child"}

arbVars == <<pc, tls, writes, actor, env, chan, call, ret, mbox, stopRx, sysInbox,
             arbiters, sysStop, exitCode, acc, out, handled, sent>>

\* the SyncAddress of the n-th ProcessSignals instance
SvcAddr(n) == [actor |-> "ProcessSignals", n |-> n, sync |-> TRUE]

\* ProcessSignals::default() and service_started, for a service started on the
\* loop of thread t: no subscribers, and one stream per signal kind added to the
\* actor's context
NewProcessSignals(t) ==
    [home |-> t, subscribers |-> <<>>, inbox |-> <<>>, stream |-> <<>>, fan |-> None,
     streams |-> [k \in SignalTypes |-> 1], logged |-> 0, pushes |-> <<>>]

\* SystemRegistry::get::<ProcessSignals>() through the handle reg, on thread t: the
\* cached address, or else an instance is constructed, started on the system
\* arbiter and cached
RegistryGet(reg, t) ==
    IF sysreg[reg.origin].some
    THEN [addr |-> sysreg[reg.origin].val, made |-> <<>>]
    ELSE [addr |-> SvcAddr(Len(ps) + 1),
          made |-> <<NewProcessSignals(Call(t, "system_arbiter").val.thread)>>]

\* Actor::started of DefaultSignalsHandler, lines 217-221, for a handler started on
\* the loop of thread t: look the service up, send it Subscribe(own address)
DefaultStarted(t) ==
    /\ Polling(t)
    /\ LET r == Call(t, "system_registry") IN
       IF ~r.ok
       THEN /\ pc' = [pc EXCEPT ![t] = "panicked"]
            /\ UNCHANGED <<sysreg, ps, subs>>
       ELSE LET g == RegistryGet(r.val, t)
                k == Len(subs) + 1 IN
            /\ sysreg' = [sysreg EXCEPT ![r.val.origin] = Some(g.addr)]
            /\ ps' = [(ps \o g.made) EXCEPT ![g.addr.n].inbox =
                            Append(@, [type |-> "Subscribe", sub |-> k])]
            /\ subs' = Append(subs, [home |-> t, svc |-> g.addr, open |-> TRUE,
                                     box |-> <<>>, seen |-> <<>>])
            /\ pc' = pc
    /\ UNCHANGED <<tls, writes, actor, env, chan, call, ret, mbox, stopRx, sysInbox,
                   arbiters, sysStop, exitCode, acc, out, handled, sent, callVars,
                   sends, notes, sigs>>

\* subscriber k stops: its mailbox is closed and sends to its address fail
Close(k) ==
    /\ k \in 1 .. Len(subs)
    /\ Polling(subs[k].home)
    /\ subs[k].open
    /\ subs' = [subs EXCEPT ![k].open = FALSE]
    /\ UNCHANGED <<arbVars, callVars, sysreg, ps, sends, notes, sigs>>

\* the process receives a signal: every stream registered for its kind yields an item
Raise(kind) ==
    /\ ps # <<>>
    /\ sigs' = [sigs EXCEPT !.raised = @ + 1]
    /\ ps' = [n \in DOMAIN ps |->
                [ps[n] EXCEPT !.stream =
                    @ \o [i \in 1 .. ps[n].streams[kind] |-> [err |-> FALSE, kind |-> kind]]]]
    /\ UNCHANGED <<arbVars, callVars, sysreg, subs, sends, notes>>

\* a signal stream of instance n reports an io::Error
SourceError(n) ==
    /\ n \in 1 .. Len(ps)
    /\ sigs' = [sigs EXCEPT !.errors = @ + 1]
    /\ ps' = [ps EXCEPT ![n].stream = Append(@, [err |-> TRUE])]
    /\ UNCHANGED <<arbVars, callVars, sysreg, subs, sends, notes>>

\* Handler<Subscribe>::handle, lines 196-201: self.subscribers.push(msg.0)
SubscribeHandle(a, m) ==
    [a EXCEPT !.subscribers = Append(@, m.sub),
              !.pushes = Append(@, [sub |-> m.sub, during |-> a.fan.some])]

HandleSubscribe(n) ==
    /\ n \in 1 .. Len(ps)
    /\ Polling(ps[n].home)
    /\ ps[n].inbox # <<>>
    /\ ps' = [ps EXCEPT ![n] = [SubscribeHandle(@, Head(@.inbox)) EXCEPT !.inbox = Tail(@)]]
    /\ UNCHANGED <<arbVars, callVars, sysreg, subs, sends, notes, sigs>>

\* a fan-out that visits the subscribers last to first
FanOutReversed(a, kind, note) ==
    [a EXCEPT !.subscribers = <<>>,
              !.fan = Some([kind |-> kind, note |-> note,
                            todo |-> [i \in 1 .. Len(a.subscribers) |->
                                         a.subscribers[Len(a.subscribers) + 1 - i]]])]

\* Handler<SignalType>::handle, line 171: the list is taken out of self.subscribers,
\* which is left empty, to be visited in order
FanOut(a, kind, note) ==
    [a EXCEPT !.subscribers = <<>>,
              !.fan = Some([kind |-> kind, note |-> note, todo |-> a.subscribers])]

\* the notification is handled completely once nothing is left to visit
FanDone(a) == IF a.fan.some /\ a.fan.val.todo = <<>> THEN [a EXCEPT !.fan = None] ELSE a

\* what the notes record when a handler returns
NoteDone(a, note) ==
    IF a.fan.some THEN notes
    ELSE [notes EXCEPT ![note].after = Some(a.subscribers)]

SignalBegin(n) ==
    /\ n \in 1 .. Len(ps)
    /\ Polling(ps[n].home)
    /\ ps[n].stream # <<>> /\ ~Head(ps[n].stream).err
    /\ LET kind == Head(ps[n].stream).kind
           note == Len(notes) + 1
           a == FanDone(FanOut([ps[n] EXCEPT !.stream = Tail(@)], kind, note)) IN
       /\ ps' = [ps EXCEPT ![n] = a]
       /\ notes' = Append(notes, [svc |-> n, kind |-> kind, before |-> ps[n].subscribers,
                                   after |-> IF a.fan.some THEN None ELSE Some(a.subscribers)])
    /\ UNCHANGED <<arbVars, callVars, sysreg, subs, sends, sigs>>

\* Subscriber::send(Signal(kind)) to subscriber s: delivered unless its mailbox is closed
SubscriberSend(s) == s.open

\* a fan-out that keeps every subscriber it visited
SignalVisitKeep(a, s, ok) ==
    [a EXCEPT !.subscribers = Append(@, s), !.fan.val.todo = Tail(@)]

\* lines 172-176: one turn of the loop; the subscriber is pushed back if the send succeeded
SignalVisit(a, s, ok) ==
    [a EXCEPT !.subscribers = IF ok THEN Append(@, s) ELSE @,
              !.fan.val.todo = Tail(@)]

SignalStep(n) ==
    /\ n \in 1 .. Len(ps)
    /\ pc[ps[n].home] = "run"
    /\ ps[n].fan.some /\ ps[n].fan.val.todo # <<>>
    /\ LET f == ps[n].fan.val
           s == Head(f.todo)
           ok == SubscriberSend(subs[s])
           a == FanDone(SignalVisit(ps[n], s, ok)) IN
       /\ subs' = IF ok THEN [subs EXCEPT ![s].box = Append(@, f.kind)] ELSE subs
       /\ sends' = Append(sends, [svc |-> n, note |-> f.note, sub |-> s, kind |-> f.kind, ok |-> ok])
       /\ ps' = [ps EXCEPT ![n] = a]
       /\ notes' = NoteDone(a, f.note)
    /\ UNCHANGED <<arbVars, callVars, sysreg, sigs>>

\* a handler that adds the failed stream to the context again
SignalErrorRestart(a) ==
    [a EXCEPT !.logged = @ + 1, !.streams = [k \in SignalTypes |-> @[k] + 1]]

\* Handler<SignalType, io::Error>::error, lines 180-182: error!(..)
SignalError(a) == [a EXCEPT !.logged = @ + 1]

HandleError(n) ==
    /\ n \in 1 .. Len(ps)
    /\ Polling(ps[n].home)
    /\ ps[n].stream # <<>> /\ Head(ps[n].stream).err
    /\ ps' = [ps EXCEPT ![n] = [SignalError(@) EXCEPT !.stream = Tail(@)]]
    /\ UNCHANGED <<arbVars, callVars, sysreg, subs, sends, notes, sigs>>

\* a handler that asks System to exit on SIGHUP as well
DefaultSignalHupExits(kind) ==
    IF kind \in {"Int", "Term", "Quit", "Hup"} THEN <<[type |-> "SystemExit", code |-> 0]>> ELSE <<>>

\* Handler<Signal> for DefaultSignalsHandler, lines 235-251: what is sent to
\* Arbiter::system() for each kind of signal
DefaultSignal(kind) ==
    IF kind \in {"Int", "Term", "Quit"} THEN <<[type |-> "SystemExit", code |-> 0]>> ELSE <<>>

\* subscriber k, a DefaultSignalsHandler, handles the next Signal of its mailbox
DefaultHandle(k) ==
    /\ k \in 1 .. Len(subs)
    /\ Polling(subs[k].home)
    /\ subs[k].open /\ subs[k].box # <<>>
    /\ LET kind == Head(subs[k].box)
           msgs == DefaultSignal(kind) IN
       IF msgs # <<>> /\ ~Call(subs[k].home, "system").ok
       THEN /\ pc' = [pc EXCEPT ![subs[k].home] = "panicked"]
            /\ UNCHANGED <<sysInbox, subs>>
       ELSE /\ sysInbox' = SendSystem(sysInbox, msgs)
            /\ subs' = [subs EXCEPT ![k].box = Tail(@),
                                    ![k].seen = Append(@, [kind |-> kind, sent |-> msgs])]
            /\ pc' = pc
    /\ UNCHANGED <<tls, writes, actor, env, chan, call, ret, mbox, stopRx,
                   arbiters, sysStop, exitCode, acc, out, handled, sent, callVars,
                   sysreg, ps, sends, notes, sigs>>

\* the messages of the shutdown scenario
UserStop(p, t, code) == sent.stops + sent.exits < MaxMsgs /\ SendStop(p, t, code)
UserExit(p, code) == sent.stops + sent.exits < MaxMsgs /\ SendExit(p, code)

\* the messages of the stopping scenario: StopArbiter sent to spawned arbiters
WorkerStop(p, c, code) == sent.stops < MaxStops /\ SendStop(p, c, code)

\* the root thread spawns one more worker arbiter
SpawnWorker ==
    /\ Cardinality({c \in Children : pc[c] # "unborn"}) < MaxWorkers
    /\ NewBegin(Root, TRUE)

\* the arbiters' life: bootstrap, spawning from the root thread, the loops,
\* stopping and shutdown; thread creation succeeds
Next ==
    \/ NewSystem
    \/ SetSystem
    \/ RootRun
    \/ SpawnWorker
    \/ \E p \in Arbiters : NewRecv(p)
    \/ \E c \in Children : ChildInit(c)
    \/ \E c \in Children : HandshakeSend(c)
    \/ \E c \in Children : Unregister(c)
    \/ \E t \in Arbiters : ArbiterStarted(t)
    \/ \E t \in Arbiters : HandleStop(t)
    \/ \E c \in Children : LoopEnd(c)
    \/ SystemRegister
    \/ SystemUnregister
    \/ SystemExit
    \/ RootLoopEnd
    \/ \E p \in Arbiters, t \in Arbiters, code \in StopCodes : UserStop(p, t, code)
    \/ \E p \in Arbiters, code \in StopCodes : UserExit(p, code)

Spec == Init /\ [][Next]_vars

\* stopping spawned arbiters: workers are spawned and sent StopArbiter by the
\* holders of their addresses, System stays up
NextStop ==
    \/ NewSystem
    \/ SetSystem
    \/ RootRun
    \/ SpawnWorker
    \/ \E p \in Arbiters : NewRecv(p)
    \/ \E c \in Children : ChildInit(c)
    \/ \E c \in Children : HandshakeSend(c)
    \/ \E c \in Children : Unregister(c)
    \/ \E t \in Arbiters : ArbiterStarted(t)
    \/ \E t \in Arbiters : HandleStop(t)
    \/ \E c \in Children : LoopEnd(c)
    \/ SystemRegister
    \/ SystemUnregister
    \/ \E p \in Arbiters, c \in Children, code \in StopCodes : WorkerStop(p, c, code)

\* a thread whose stop receiver has resolved returns from core.run and then runs
\* the rest of its closure
FairSpec ==
    /\ Init /\ [][NextStop]_vars
    /\ \A c \in Children : WF_vars(LoopEnd(c)) /\ WF_vars(Unregister(c))

\* user code calling Arbiter::new and the thread-local API on any thread, arbiter
\* or foreign, with thread creation and Core::new allowed to fail
NextApi ==
    \/ NewSystem
    \/ SetSystem
    \/ RootRun
    \/ \E p \in Threads, spawned \in BOOLEAN : NewBegin(p, spawned)
    \/ \E p \in Threads : NewRecv(p)
    \/ \E c \in Children : CoreFail(c)
    \/ \E c \in Children : ChildInit(c)
    \/ \E c \in Children : HandshakeSend(c)
    \/ \E p \in Threads, fn \in Accessors : AccessorCall(p, fn)

ApiSpec == Init /\ [][NextApi]_vars

\* starting actors on other arbiters: the root thread and its workers send each
\* other StartActor, and messages to the actors started that way
NextStart ==
    \/ NewSystem
    \/ SetSystem
    \/ RootRun
    \/ SpawnWorker
    \/ \E p \in Arbiters : NewRecv(p)
    \/ \E c \in Children : ChildInit(c)
    \/ \E c \in Children : HandshakeSend(c)
    \/ \E t \in Arbiters : ArbiterStarted(t)
    \/ \E p \in Arbiters, t \in Arbiters : SendStart(p, t)
    \/ \E t \in Arbiters : HandleStart(t)
    \/ \E k \in 1 .. MaxReqs : ObjStarted(k)
    \/ \E p \in Arbiters, k \in 1 .. MaxReqs : ActorSend(p, k)
    \/ \E k \in 1 .. MaxReqs : ObjHandle(k)

StartSpec == Init /\ [][NextStart]_vars

\* running computations on other arbiters: the root thread and its workers send
\* each other Execute
NextExec ==
    \/ NewSystem
    \/ SetSystem
    \/ RootRun
    \/ SpawnWorker
    \/ \E p \in Arbiters : NewRecv(p)
    \/ \E c \in Children : ChildInit(c)
    \/ \E c \in Children : HandshakeSend(c)
    \/ \E t \in Arbiters : ArbiterStarted(t)
    \/ \E p \in Arbiters, t \in Arbiters, r \in ExecResults : SendExecute(p, t, r)
    \/ \E t \in Arbiters : HandleExecute(t)

ExecSpec == Init /\ [][NextExec]_vars

\* the signals of the fan-out scenario: ProcessSignals relays the kind unread
FanKinds == {"Int", "Hup"}

\* the subscribers and signals of the fan-out scenario
FanSubscribe(t) == Len(subs) < MaxSubs /\ DefaultStarted(t)

\* the root thread spawns the worker of the scenario
FanWorker == (\A c \in Children : pc[c] = "unborn") /\ NewBegin(Root, TRUE)
FanRaise(kind) == sigs.raised < MaxSignals /\ Raise(kind)

\* signal fan-out: ProcessSignals lives on the root arbiter; handlers started on a
\* worker arbiter subscribe and stop, and the process receives signals
NextFan ==
    \/ NewSystem
    \/ SetSystem
    \/ RootRun
    \/ FanWorker
    \/ \E p \in Arbiters : NewRecv(p)
    \/ \E c \in Children : ChildInit(c)
    \/ \E c \in Children : HandshakeSend(c)
    \/ \E c \in Children : FanSubscribe(c)
    \/ \E k \in 1 .. MaxSubs : Close(k)
    \/ \E kind \in FanKinds : FanRaise(kind)
    \/ \E n \in 1 .. MaxSubs : HandleSubscribe(n)
    \/ \E n \in 1 .. MaxSubs : SignalBegin(n)
    \/ \E n \in 1 .. MaxSubs : SignalStep(n)

FanSpec == Init /\ [][NextFan]_vars

\* the stream errors of the error scenario
FanError(n) == sigs.errors < MaxErrors /\ SourceError(n)

\* failing signal streams: handlers started on a worker arbiter subscribe, the
\* process receives signals and the streams of ProcessSignals report errors
NextErr ==
    \/ NewSystem
    \/ SetSystem
    \/ RootRun
    \/ FanWorker
    \/ \E p \in Arbiters : NewRecv(p)
    \/ \E c \in Children : ChildInit(c)
    \/ \E c \in Children : HandshakeSend(c)
    \/ \E c \in Children : FanSubscribe(c)
    \/ \E kind \in FanKinds : FanRaise(kind)
    \/ \E n \in 1 .. MaxSubs : FanError(n)
    \/ \E n \in 1 .. MaxSubs : HandleSubscribe(n)
    \/ \E n \in 1 .. MaxSubs : SignalBegin(n)
    \/ \E n \in 1 .. MaxSubs : SignalStep(n)
    \/ \E n \in 1 .. MaxSubs : HandleError(n)

ErrSpec == Init /\ [][NextErr]_vars

\* the handlers and signals of the exit scenario
ExitSubscribe(t) == Len(subs) < MaxHandlers /\ DefaultStarted(t)
ExitRaise(kind) == sigs.raised < MaxKills /\ Raise(kind)

\* exit on signals: DefaultSignalsHandler actors are started on the root arbiter
\* and on workers, each looks ProcessSignals up through the registry handle of its
\* thread, and the process receives signals of every kind
NextExit ==
    \/ NewSystem
    \/ SetSystem
    \/ RootRun
    \/ SpawnWorker
    \/ \E p \in Arbiters : NewRecv(p)
    \/ \E c \in Children : ChildInit(c)
    \/ \E c \in Children : HandshakeSend(c)
    \/ \E t \in Arbiters : ExitSubscribe(t)
    \/ \E kind \in SignalTypes : ExitRaise(kind)
    \/ \E n \in 1 .. MaxHandlers : HandleSubscribe(n)
    \/ \E n \in 1 .. MaxHandlers : SignalBegin(n)
    \/ \E n \in 1 .. MaxHandlers : SignalStep(n)
    \/ \E k \in 1 .. MaxHandlers : DefaultHandle(k)

ExitSpec == Init /\ [][NextExit]_vars

\* registration: arbiters spawn arbiters, thread creation and Core::new may fail,
\* the arbiters register with System, are stopped and unregister
NextReg ==
    \/ NewSystem
    \/ SetSystem
    \/ RootRun
    \/ \E p \in Arbiters, spawned \in BOOLEAN : NewBegin(p, spawned)
    \/ \E p \in Arbiters : NewRecv(p)
    \/ \E c \in Children : CoreFail(c)
    \/ \E c \in Children : ChildInit(c)
    \/ \E c \in Children : HandshakeSend(c)
    \/ \E c \in Children : Unregister(c)
    \/ \E t \in Arbiters : ArbiterStarted(t)
    \/ \E t \in Arbiters : HandleStop(t)
    \/ \E c \in Children : LoopEnd(c)
    \/ SystemRegister
    \/ SystemUnregister
    \/ \E p \in Arbiters, c \in Children, code \in StopCodes : WorkerStop(p, c, code)

RegSpec == Init /\ [][NextReg]_vars

\* ================================================================ claims

\* thread t has just handled a StopArbiter message
Handles(t) == handled'[t] # handled[t]

\* C1: the system arbiter rejects StopArbiter.  Whenever the root arbiter handles
\* StopArbiter(code), its loop's stop receiver stays empty, System's stop sender
\* and mailbox are untouched and the root thread stays in its loop; the root loop
\* ends only when a SystemExit was sent to System.
C1_StopRejected ==
    /\ [][Handles(Root) =>
            /\ stopRx' = stopRx
            /\ sysStop' = sysStop
            /\ sysInbox' = sysInbox
            /\ tls' = tls
            /\ pc'[Root] = "run"]_vars
    /\ [](stopRx[Root].some \/ pc[Root] = "done" => sent.exits > 0)

\* the root arbiter has handled a StopArbiter and is still in its loop, unsignalled
C1_Witness ==
    /\ handled[Root] # <<>>
    /\ pc[Root] = "run"
    /\ ~stopRx[Root].some
    /\ sent.exits = 0

\* C2: shutdown completeness.  Once System's shutdown has completed (the root loop
\* has returned), no spawned arbiter is still inside its event loop.
C2_ShutdownComplete ==
    pc[Root] = "done" => \A c \in Children : pc[c] # "run"

Last(q) == q[Len(q)]

ChildCells == Slots \ {"REG"}

\* C4: the spawn handshake.  Every address Arbiter::new has returned is the
\* SyncAddress of the arbiter of the thread that call spawned, and by then that
\* thread has assigned its cells (loop handle, stop sender, name, System address,
\* system arbiter, system name, system registry), started its Arbiter actor and
\* stored the actor's address in ADDR.
C4_Handshake ==
    \A p \in Threads : \A i \in 1 .. Len(ret[p]) :
        LET c == ret[p][i].child IN
        /\ ret[p][i].addr = SyncAddr(c)
        /\ chan[c].caller = p
        /\ \A s \in ChildCells : writes[c][s] = 1
        /\ actor[c].some /\ actor[c].val.id = Uuid(c) /\ ~actor[c].val.sys
        /\ tls[c]["ADDR"] = Some(LocalAddr(c))
        /\ tls[c]["NAME"].some /\ tls[c]["NAME"].val.id = IdHyphenated(Uuid(c))

\* Arbiter::new has returned on the root thread and on a spawned thread
C4_Witness ==
    /\ ret[Root] # <<>>
    /\ \E c \in Children : ret[c] # <<>>

\* the thread of child c could not be created, or died before its handshake send
FailedToStart(c) == pc[c] \in {"nothread", "panicked"} /\ ~actor[c].some

\* C5 as stated: when the child thread fails to start, the call to Arbiter::new
\* stays blocked: it never returns and never fails.
C5_Original ==
    \A c \in Children : FailedToStart(c) => call[chan[c].caller] = c

\* C5, amended: when the child thread fails to start, Arbiter::new never returns
\* an address, and it does not block either: the handshake sender is gone, so
\* rx.recv() reports the disconnection and the unwrap panics on the calling thread.
C5_SpawnFailurePanics ==
    \A c \in Children : FailedToStart(c) =>
        LET p == chan[c].caller IN
        /\ \A q \in Threads : \A i \in 1 .. Len(ret[q]) : ret[q][i].child # c
        /\ ~chan[c].tx /\ ~chan[c].val.some
        /\ IF call[p] = c
           THEN Recv(chan[c]).ready /\ ~Recv(chan[c]).ok
           ELSE pc[p] = "panicked"

\* a child failed to start and its caller has panicked in Arbiter::new
C5_Witness ==
    \E c \in Children :
        /\ FailedToStart(c)
        /\ call[chan[c].caller] # c
        /\ pc[chan[c].caller] = "panicked"

\* C6: on a thread where no arbiter was initialised every accessor panics, and so
\* does Arbiter::new, before any thread is spawned: whatever the foreign thread
\* calls, it ends panicked, no child thread or handshake channel comes to exist
\* for it, and nothing is returned to it.
C6_ForeignThreadPanics ==
    /\ [](\A fn \in Accessors : ~Call(Ext, fn).ok)
    /\ [](acc.some /\ acc.val.thread = Ext => ~acc.val.ok /\ pc[Ext] = "panicked")
    /\ [](call[Ext] = 0 /\ ret[Ext] = <<>> /\ \A c \in Children : chan[c].caller # Ext)
    /\ [][pc'[Ext] # pc[Ext] =>
            /\ pc'[Ext] = "panicked"
            /\ env' = env /\ chan' = chan
            /\ \A c \in Children : pc'[c] = pc[c]]_vars

\* the foreign thread has called Arbiter::new and panicked
C6_Witness ==
    /\ pc[Ext] = "panicked"
    /\ ~acc.some

\* C7: every accessor called on the thread of a running arbiter, the root one or
\* one created by Arbiter::new, returns a value and does not panic.
C7_AccessorsAvailable ==
    acc.some /\ acc.val.thread \in Arbiters => acc.val.ok

\* C8 as stated: once a cell of an arbiter thread holds a value, no operation
\* changes it.
C8_Original ==
    [][\A t \in Arbiters : \A s \in Slots : tls[t][s].some => tls'[t][s] = tls[t][s]]_vars

\* C8, amended: every cell is assigned at most once, and only by the thread's
\* initialisation: new_system and set_system assign all cells but STOP on the root
\* thread, the closure of Arbiter::new assigns all cells but REG on a spawned
\* thread.  Afterwards the only change to a cell is that the StopArbiter handler of
\* a non-system arbiter empties STOP, the first time it runs.
C8_WrittenOnce ==
    /\ [](\A t \in Threads : \A s \in Slots :
            /\ writes[t][s] <= 1
            /\ writes[t][s] = 0 => ~tls[t][s].some)
    /\ [](pc[Root] \in {"ready", "run", "done"} =>
            \A s \in Slots : writes[Root][s] = IF s = "STOP" THEN 0 ELSE 1)
    /\ [](\A c \in Children : pc[c] \in {"send", "run", "unreg", "done"} =>
            \A s \in Slots : writes[c][s] = IF s = "REG" THEN 0 ELSE 1)
    /\ [][\A t \in Arbiters : \A s \in Slots :
            tls[t][s].some /\ tls'[t][s] # tls[t][s] =>
                /\ s = "STOP" /\ t \in Children
                /\ ~tls'[t][s].some
                /\ Handles(t) /\ handled[t] = <<>>]_vars

\* a spawned arbiter has handled StopArbiter: STOP was assigned once and is empty
C8_Witness ==
    \E c \in Children :
        /\ handled[c] # <<>>
        /\ writes[c]["STOP"] = 1
        /\ ~tls[c]["STOP"].some

\* C9: on every spawned arbiter thread, whatever thread spawned it, system(),
\* system_name() and system_arbiter() return what they return on the root thread:
\* the address of System, the system name and the address of the root arbiter.
C9_SystemMirrored ==
    \A c \in Children : actor[c].some =>
        /\ Call(c, "system") = Call(Root, "system")
        /\ Call(c, "system_name") = Call(Root, "system_name")
        /\ Call(c, "system_arbiter") = Call(Root, "system_arbiter")
        /\ Call(c, "system") = [ok |-> TRUE, val |-> SysAddr]
        /\ Call(c, "system_name") = [ok |-> TRUE, val |-> SysName]
        /\ Call(c, "system_arbiter") = [ok |-> TRUE, val |-> SyncAddr(Root)]

\* an arbiter spawned from a spawned arbiter's thread has filled its cells
C9_Witness ==
    \E c \in Children : actor[c].some /\ chan[c].caller \in Children

\* the RegisterArbiter messages thread t has sent
Registers(t) == SelectSeq(out[t], LAMBDA m : m.type = "RegisterArbiter")

\* C10: every arbiter, the root one included, sends RegisterArbiter(its id, its
\* own address) to System from its started hook exactly once, as the first thing
\* its thread sends and before it handles any message; the System address is in
\* SYS when the hook is due, so the hook does not panic.
C10_RegisteredOnce ==
    \A t \in Arbiters :
        /\ Len(Registers(t)) <= 1
        /\ pc[t] # "panicked"
        /\ HookDue(t) => Call(t, "system") = [ok |-> TRUE, val |-> SysAddr]
        /\ actor[t].some /\ ~actor[t].val.started => out[t] = <<>> /\ handled[t] = <<>>
        /\ actor[t].some /\ actor[t].val.started =>
            /\ Len(Registers(t)) = 1
            /\ out[t][1] = [type |-> "RegisterArbiter", id |-> IdSimple(Uuid(t)), addr |-> SyncAddr(t)]
        /\ ~actor[t].some => out[t] = <<>> /\ handled[t] = <<>>

\* the root arbiter has registered and a spawned arbiter has handled a message
C10_Witness ==
    /\ actor[Root].some /\ actor[Root].val.started
    /\ \E c \in Children : handled[c] # <<>> /\ Len(Registers(c)) = 1

\* the requests of a type sent so far, and the log entries of a type
Requests(type) == {j \in 1 .. Len(reqs) : reqs[j].type = type}
Logged(type) == {e \in UNION {{log[t][i] : i \in 1 .. Len(log[t])} : t \in Arbiters} : e.type = type}

\* the responses returned to request j
Responses(j) ==
    {e \in [thread : Arbiters, at : 1 .. Len(reqs)] :
        e.at <= Len(resp[e.thread]) /\ resp[e.thread][e.at].req = j}

\* C11: cross-thread start.  An actor started by a StartActor sent from arbiter A
\* to arbiter B is constructed on B's thread and lives on B's loop, its started
\* hook runs on B's thread, the response to the request goes to A and carries the
\* SyncAddress of that actor, and every message sent to that address is handled
\* on B's thread, which is not A's when A and B differ.
C11_CrossThreadStart ==
    /\ \A k \in 1 .. Len(objs) :
        LET r == reqs[objs[k].req] IN
        /\ r.type = "StartActor"
        /\ objs[k].ctor = r.to /\ objs[k].home = r.to
        /\ \E e \in Responses(r.req) :
            /\ e.thread = r.to
            /\ resp[e.thread][e.at].to = r.from
            /\ resp[e.thread][e.at].kind = "item"
            /\ resp[e.thread][e.at].val = ObjAddr(k)
    /\ \A e \in Logged("started") \cup Logged("handle") :
        LET r == reqs[objs[e.obj].req] IN
        /\ e.thread = r.to
        /\ r.from # r.to => e.thread # r.from
    /\ \A e \in Logged("call") : e.thread = reqs[e.req].to

\* the root thread had an actor started on a worker, and a message sent to a
\* started actor from another thread has been handled after the actor's started hook
C11_Witness ==
    /\ \E k \in 1 .. Len(objs) : reqs[objs[k].req].from = Root /\ objs[k].home \in Children
    /\ \E e \in Logged("handle") : reqs[e.req].from # e.thread /\ objs[e.obj].started

\* where and when the computation of request j has run
Runs(j) ==
    {e \in [thread : Arbiters, at : 1 .. Len(reqs)] :
        /\ e.at <= Len(log[e.thread])
        /\ log[e.thread][e.at].type = "exec" /\ log[e.thread][e.at].req = j}

\* C12: handling Execute runs the computation exactly once, on the thread of the
\* receiving arbiter; Ok(i) is answered with a success response carrying i and
\* Err(e) with an error response carrying e, returned to the sender; the arbiter
\* is not stopped by either and goes on delivering the messages of its mailbox.
C12_ExecuteRelayed ==
    /\ \A j \in Requests("Execute") :
        /\ Cardinality(Runs(j)) <= 1
        /\ Cardinality(Responses(j)) = Cardinality(Runs(j))
        /\ \A e \in Runs(j) : e.thread = reqs[j].to
        /\ \A e \in Responses(j) :
            LET a == resp[e.thread][e.at] IN
            /\ e.thread = reqs[j].to /\ a.to = reqs[j].from
            /\ a.kind = (IF reqs[j].fn.tag = "Ok" THEN "item" ELSE "error")
            /\ a.val = reqs[j].fn.val
    /\ \A t \in Arbiters : resp[t] # <<>> =>
        /\ pc[t] = "run" /\ ArbiterAlive(t) /\ ~stopRx[t].some
        /\ t \in Children => tls[t]["STOP"].some
        /\ mbox[t] # <<>> /\ call[t] = 0 => Deliverable(t) /\ Head(mbox[t]).type = "Execute"

\* an arbiter has answered an Execute of another thread with an error response and
\* then a later Execute with a success response
C12_Witness ==
    \E t \in Arbiters :
        /\ Len(resp[t]) >= 2
        /\ resp[t][1].kind = "error" /\ resp[t][2].kind = "item"
        /\ resp[t][1].to # t
        /\ pc[t] = "run"

\* the sends attempted while handling notification j, in order, and their targets
SendsOf(j) == SelectSeq(sends, LAMBDA e : e.note = j)
Targets(j) == [i \in 1 .. Len(SendsOf(j)) |-> SendsOf(j)[i].sub]

\* the kinds of the signals delivered to subscriber k, in order
Delivered(k) ==
    LET got == SelectSeq(sends, LAMBDA e : e.sub = k /\ e.ok) IN
    [i \in 1 .. Len(got) |-> got[i].kind]

\* C13: signal fan-out.  While ProcessSignals handles a notification of kind k, the
\* sends it has attempted are, in order, a prefix of the subscriber list it had
\* when the handler began, one send per entry, each carrying Signal(k); when the
\* handler returns the whole list has been visited.  Nobody else is sent anything:
\* what a subscriber has received is exactly what these sends delivered to it.
C13_FanOut ==
    /\ \A j \in 1 .. Len(notes) :
        /\ Len(Targets(j)) <= Len(notes[j].before)
        /\ Targets(j) = SubSeq(notes[j].before, 1, Len(Targets(j)))
        /\ \A i \in 1 .. Len(SendsOf(j)) :
            SendsOf(j)[i].kind = notes[j].kind /\ SendsOf(j)[i].svc = notes[j].svc
        /\ notes[j].after.some => Targets(j) = notes[j].before
    /\ \A i \in 1 .. Len(sends) : sends[i].note \in 1 .. Len(notes)
    /\ \A k \in 1 .. Len(subs) : subs[k].box = Delivered(k)

\* a notification has been handled with two subscribers registered, in the order
\* they subscribed, while a third subscriber was not registered yet
C13_Witness ==
    \E j \in 1 .. Len(notes) :
        /\ notes[j].after.some
        /\ notes[j].before = <<1, 2>>
        /\ Targets(j) = <<1, 2>>
        /\ Len(subs) = 3 /\ subs[3].box = <<>>

\* the entries of list whose send, while handling notification j, succeeded
Survivors(j, list) ==
    SelectSeq(list, LAMBDA k : \E i \in 1 .. Len(SendsOf(j)) :
                                   SendsOf(j)[i].sub = k /\ SendsOf(j)[i].ok)

\* the subscribers that instance n holds, in its list or in the list being visited
Held(n) ==
    {ps[n].subscribers[i] : i \in 1 .. Len(ps[n].subscribers)} \cup
    (IF ps[n].fan.some
     THEN {ps[n].fan.val.todo[i] : i \in 1 .. Len(ps[n].fan.val.todo)} ELSE {})

\* C14: subscriber pruning.  When the handler of a notification returns, the
\* subscriber list is the list it began with less the entries whose send failed,
\* in the same order.  A send fails only to a subscriber whose mailbox is closed;
\* it is the last send that subscriber gets, and it raises no error: nothing is
\* logged and the thread of ProcessSignals does not panic.  A subscriber that is still
\* reachable and was registered is still held.
C14_Pruning ==
    /\ \A j \in 1 .. Len(notes) :
        notes[j].after.some => notes[j].after.val = Survivors(j, notes[j].before)
    /\ \A i \in 1 .. Len(sends) :
        /\ subs[sends[i].sub].open => sends[i].ok
        /\ ~sends[i].ok => \A h \in (i + 1) .. Len(sends) : sends[h].sub # sends[i].sub
    /\ \A n \in 1 .. Len(ps) :
        /\ ps[n].logged = 0 /\ pc[ps[n].home] \in {"ready", "run"}
        /\ \A i \in 1 .. Len(ps[n].pushes) :
            subs[ps[n].pushes[i].sub].open => ps[n].pushes[i].sub \in Held(n)

\* three subscribers were registered and one of them closed: the notification made
\* two deliveries and left two subscribers, and a later notification was handled
C14_Witness ==
    \E j \in 1 .. Len(notes) :
        /\ notes[j].after.some
        /\ Len(notes[j].before) = 3
        /\ Len(notes[j].after.val) = 2
        /\ Cardinality({i \in 1 .. Len(SendsOf(j)) : SendsOf(j)[i].ok}) = 2
        /\ j < Len(notes) /\ notes[Len(notes)].after.some

\* the notifications instance n has begun to handle and not finished
Unfinished(n) == {j \in 1 .. Len(notes) : notes[j].svc = n /\ ~notes[j].after.some}

\* the subscribers whose Subscribe instance n has handled, or has in its mailbox
Pushed(n) == {ps[n].pushes[i].sub : i \in 1 .. Len(ps[n].pushes)}
Waiting(n) == {ps[n].inbox[i].sub : i \in 1 .. Len(ps[n].inbox)}

\* C17: run-to-completion.  At most one handler of a ProcessSignals instance is in
\* progress: a notification is begun only when the previous one is finished, and
\* no Subscribe is handled while a fan-out is in progress.  No subscription is
\* lost: every subscriber that has sent Subscribe is waiting in the mailbox or has
\* been pushed, and a pushed subscriber is held until a send to it fails.
C17_RunToCompletion ==
    \A n \in 1 .. Len(ps) :
        /\ Cardinality(Unfinished(n)) <= 1
        /\ ps[n].fan.some <=> Unfinished(n) # {}
        /\ ps[n].fan.some => Unfinished(n) = {ps[n].fan.val.note}
        /\ \A i \in 1 .. Len(ps[n].pushes) : ~ps[n].pushes[i].during
        /\ \A k \in 1 .. Len(subs) : subs[k].svc = SvcAddr(n) =>
            /\ k \in Pushed(n) \cup Waiting(n)
            /\ k \in Pushed(n) =>
                k \in Held(n) \/ \E i \in 1 .. Len(sends) : sends[i].sub = k /\ ~sends[i].ok

\* a Subscribe arrived while a fan-out over two subscribers was in progress
C17_Witness ==
    \E n \in 1 .. Len(ps) :
        /\ ps[n].fan.some
        /\ Len(notes[ps[n].fan.val.note].before) = 2
        /\ Len(ps[n].fan.val.todo) = 1
        /\ ps[n].inbox # <<>>

\* instance n has just handled an error of one of its streams
HandlesError(n) == n \in 1 .. Len(ps) /\ ps'[n].logged # ps[n].logged

\* C18: an error reported by a signal stream is only logged.  The step that handles
\* it leaves the subscriber list, the mailbox, the subscribers and every record of
\* sends and notifications as they were and adds no stream; at all times every
\* signal kind has the one stream service_started added for it.
C18_ErrorOnlyLogged ==
    /\ [][\A n \in 1 .. MaxSubs : HandlesError(n) =>
            /\ ps'[n].logged = ps[n].logged + 1
            /\ ps'[n].subscribers = ps[n].subscribers
            /\ ps'[n].inbox = ps[n].inbox
            /\ ps'[n].fan = ps[n].fan
            /\ ps'[n].streams = ps[n].streams
            /\ ps'[n].stream = Tail(ps[n].stream)
            /\ UNCHANGED <<subs, sends, notes, sysreg, sysInbox, pc>>]_vars
    /\ [](\A n \in 1 .. Len(ps) : \A k \in SignalTypes : ps[n].streams[k] = 1)

\* an error was logged while a subscriber was registered, and the only send made
\* is the one of the signal the process received
C18_Witness ==
    \E n \in 1 .. Len(ps) :
        /\ ps[n].logged = 1
        /\ ps[n].subscribers # <<>>
        /\ Len(sends) = 1 /\ sends[1].ok
        /\ ps[n].stream = <<>>

\* how many times subscriber k occurs in the mailbox and in the pushes of instance n
Subscriptions(n, k) ==
    Cardinality({i \in 1 .. Len(ps[n].inbox) : ps[n].inbox[i].sub = k}) +
    Cardinality({i \in 1 .. Len(ps[n].pushes) : ps[n].pushes[i].sub = k})

\* the signals handled by DefaultSignalsHandler actors that ask for an exit
ExitsAsked ==
    {e \in [sub : 1 .. Len(subs), at : 1 .. MaxKills + 1] :
        /\ e.at <= Len(subs[e.sub].seen)
        /\ subs[e.sub].seen[e.at].kind \in {"Int", "Term", "Quit"}}

\* C15: a DefaultSignalsHandler that has started has sent one Subscribe, carrying
\* its own address, to the ProcessSignals instance cached in the system registry
\* of its thread.  For every Signal it has handled it sent SystemExit(0) to System
\* once if the kind is Int, Term or Quit and nothing if it is Hup or Child, so
\* System's mailbox holds one SystemExit(0) per such signal handled and nothing
\* else; no handler panics.
C15_DefaultHandler ==
    /\ \A k \in 1 .. Len(subs) :
        LET reg == tls[subs[k].home]["SYSREG"] IN
        /\ reg.some /\ sysreg[reg.val.origin] = Some(subs[k].svc)
        /\ subs[k].svc.n \in 1 .. Len(ps)
        /\ Subscriptions(subs[k].svc.n, k) = 1
        /\ \A n \in 1 .. Len(ps) : n # subs[k].svc.n => Subscriptions(n, k) = 0
        /\ pc[subs[k].home] # "panicked"
        /\ \A i \in 1 .. Len(subs[k].seen) :
            subs[k].seen[i].sent =
                IF subs[k].seen[i].kind \in {"Int", "Term", "Quit"}
                THEN <<[type |-> "SystemExit", code |-> 0]>> ELSE <<>>
    /\ Len(sysInbox) = Cardinality(ExitsAsked)
    /\ \A i \in 1 .. Len(sysInbox) : sysInbox[i] = [type |-> "SystemExit", code |-> 0]

\* a handler on a worker thread has handled SIGTERM and System has been sent one
\* SystemExit(0)
C15_Witness ==
    \E k \in 1 .. Len(subs) :
        /\ subs[k].home \in Children
        /\ subs[k].seen # <<>> /\ subs[k].seen[1].kind = "Term"
        /\ Len(sysInbox) = 1

C19_StopOnce ==
    /\ [][\A c \in Children : Handles(c) =>
            /\ IF handled[c] = <<>>
               THEN /\ tls[c]["STOP"].some /\ ~stopRx[c].some
                    /\ tls'[c] = [tls[c] EXCEPT !["STOP"] = None]
                    /\ stopRx'[c] = Some(handled'[c][1])
               ELSE /\ ~tls[c]["STOP"].some
                    /\ tls' = tls /\ stopRx' = stopRx
            /\ \A d \in Arbiters \ {c} : tls'[d] = tls[d] /\ stopRx'[d] = stopRx[d]
            /\ UNCHANGED <<pc, actor, sysInbox, arbiters, sysStop, out, writes>>
            /\ resp'[c] = Append(resp[c], [req |-> 0, to |-> NoThread, kind |-> "item",
                                           val |-> [unit |-> TRUE]])]_vars
    /\ [](\A c \in Children :
            /\ Len(resp[c]) = Len(handled[c])
            /\ stopRx[c].some <=> handled[c] # <<>>
            /\ pc[c] \in {"unreg", "done"} =>
                handled[c] # <<>> /\ LoopResult(stopRx[c]) = handled[c][1])

\* a spawned arbiter was sent StopArbiter(1) and then StopArbiter(0), answered both
\* and left its loop with code 1
C19_Witness ==
    \E c \in Children :
        /\ pc[c] \in {"unreg", "done"}
        /\ handled[c] = <<1, 0>>
        /\ Len(resp[c]) = 2
        /\ LoopResult(stopRx[c]) = 1

\* the thread of a spawned arbiter has exited, by returning or by unwinding
Exited(c) == pc[c] \in {"done", "panicked"}

\* System still has a message of the arbiter with this id in its mailbox
Pending(id) == \E i \in 1 .. Len(sysInbox) : sysInbox[i].id = IdSimple(id)

\* C20: no stale registration.  Once the thread of a spawned arbiter has exited and
\* System, still running, has handled every message that thread sent, the arbiter's
\* id is not in System's arbiter map.
C20_NoStaleRegistration ==
    \A c \in Children :
        SystemAlive /\ Exited(c) /\ ~Pending(Uuid(c)) =>
            IdSimple(Uuid(c)) \notin DOMAIN arbiters
====
